---- MODULE Spec2Model ----
(***************************************************************************)
(* Model of the multi-level parking garage of src/Design.cpp: Machine,     *)
(* Slot, Level, Garage and the command loop of main.                       *)
(***************************************************************************)
EXTENDS Integers, Sequences, FiniteSets, TLC

\* ------------------------------------------------------------------ bounds
MaxLevels == 2
MaxSlots == 3
MaxList == 2

\* identifiers read by `cin >> id` (the empty word is read once input is exhausted)
Ids == {"", "A1", "B1"}

\* the integers read at start-up; a negative count builds nothing
Dims(max) == {-1} \cup 0..max

\* category words read by `cin >> kindStr`
KindStrs == {"Bike", "Car", "Truck", "Van"}

VARIABLES levelCount, slotsPerLevel, levels, machineLocations, machineCatalog,
          pc, cmd, arg, ret, output, trip, garageMutex, threads

vars == <<levelCount, slotsPerLevel, levels, machineLocations, machineCatalog,
          pc, cmd, arg, ret, output, trip, garageMutex, threads>>

garage == <<levels, machineLocations, machineCatalog>>

\* the mutex and the threads that call the Garage concurrently
conc == <<garageMutex, threads>>

\* the threads of a multi-threaded client
Threads == {"t1", "t2"}

\* ------------------------------------------------------------------ Machine
Machine(id, mkind) == [identifier |-> id, kind |-> mkind]

DefaultMachine == Machine("", "Bike")

NoMachine == Machine("", "")

slotsNeeded(machine) == IF machine.kind = "Truck" THEN 2 ELSE 1

\* mutant: the Truck case is missing
kindToString_NoTruck(kind) ==
  CASE kind = "Bike" -> "Bike"
    [] kind = "Car" -> "Car"
    [] OTHER -> "Unknown"

kindToString(kind) ==
  CASE kind = "Bike" -> "Bike"
    [] kind = "Car" -> "Car"
    [] kind = "Truck" -> "Truck"
    [] OTHER -> "Unknown"

\* main: interpretation of the category word
ParseKind(kindStr) ==
  IF kindStr = "Bike" THEN "Bike"
  ELSE IF kindStr = "Car" THEN "Car"
  ELSE "Truck"

\* ------------------------------------------------------------------ Slot
Slot(level, index) ==
  [levelIndex |-> level, slotIndex |-> index, isOccupied |-> FALSE, occupantId |-> ""]

\* mutant: the occupied test is missing
occupySlot_Overwrite(s, machineId) ==
  [ok |-> TRUE, slot |-> [s EXCEPT !.occupantId = machineId, !.isOccupied = TRUE]]

occupySlot(s, machineId) ==
  IF s.isOccupied THEN [ok |-> FALSE, slot |-> s]
  ELSE [ok |-> TRUE, slot |-> [s EXCEPT !.occupantId = machineId, !.isOccupied = TRUE]]

\* mutant: the occupant is not cleared
vacateSlot_KeepOccupant(s) ==
  IF ~s.isOccupied THEN [ok |-> FALSE, slot |-> s]
  ELSE [ok |-> TRUE, slot |-> [s EXCEPT !.isOccupied = FALSE]]

\* mutant: the occupied flag is not reset
vacateSlot_KeepFlag(s) ==
  IF ~s.isOccupied THEN [ok |-> FALSE, slot |-> s]
  ELSE [ok |-> TRUE, slot |-> [s EXCEPT !.occupantId = ""]]

vacateSlot(s) ==
  IF ~s.isOccupied THEN [ok |-> FALSE, slot |-> s]
  ELSE [ok |-> TRUE, slot |-> [s EXCEPT !.occupantId = "", !.isOccupied = FALSE]]

\* ------------------------------------------------------------------ Level
\* number of elements a constructor loop `for (i = 0; i < n; ++i)` creates
Built(n) == IF n > 0 THEN n ELSE 0

Level(index, totalSlots) ==
  [levelIndex |-> index,
   slotList |-> [i \in 0..(Built(totalSlots) - 1) |-> Slot(index, i)]]

Size(f) == Cardinality(DOMAIN f)

\* mutant: the scan stops one slot early
RECURSIVE FirstFree_StopEarly(_, _)
FirstFree_StopEarly(slotList, i) ==
  IF i + 1 >= Size(slotList) THEN <<>>
  ELSE IF ~slotList[i].isOccupied THEN <<slotList[i].slotIndex>>
  ELSE FirstFree_StopEarly(slotList, i + 1)

RECURSIVE FirstFree(_, _)
FirstFree(slotList, i) ==
  IF i >= Size(slotList) THEN <<>>
  ELSE IF ~slotList[i].isOccupied THEN <<slotList[i].slotIndex>>
  ELSE FirstFree(slotList, i + 1)

\* mutant: the pair is (i, i+2)
RECURSIVE FirstFreePair_Gap(_, _)
FirstFreePair_Gap(slotList, i) ==
  IF i + 2 >= Size(slotList) THEN <<>>
  ELSE IF ~slotList[i].isOccupied /\ ~slotList[i + 2].isOccupied
       THEN <<slotList[i].slotIndex, slotList[i + 2].slotIndex>>
  ELSE FirstFreePair_Gap(slotList, i + 1)

RECURSIVE FirstFreePair(_, _)
FirstFreePair(slotList, i) ==
  IF i + 1 >= Size(slotList) THEN <<>>
  ELSE IF ~slotList[i].isOccupied /\ ~slotList[i + 1].isOccupied
       THEN <<slotList[i].slotIndex, slotList[i + 1].slotIndex>>
  ELSE FirstFreePair(slotList, i + 1)

spotsAvailable(lvl, machine) ==
  IF slotsNeeded(machine) = 1 THEN FirstFree(lvl.slotList, 0)
  ELSE FirstFreePair(lvl.slotList, 0)

\* mutant: only the first listed slot is occupied
OccupyAll_FirstOnly(slotList, machineId, slotsToUse, k) ==
  IF k > Len(slotsToUse) THEN slotList
  ELSE [slotList EXCEPT ![slotsToUse[k]] = occupySlot(@, machineId).slot]

RECURSIVE OccupyAll(_, _, _, _)
OccupyAll(slotList, machineId, slotsToUse, k) ==
  IF k > Len(slotsToUse) THEN slotList
  ELSE OccupyAll([slotList EXCEPT ![slotsToUse[k]] = occupySlot(@, machineId).slot],
                 machineId, slotsToUse, k + 1)

\* mutant: one loop tests and occupies slot by slot
RECURSIVE AssignStepwise(_, _, _, _)
AssignStepwise(lvl, machine, slotsToUse, k) ==
  IF k > Len(slotsToUse) THEN [ok |-> TRUE, level |-> lvl]
  ELSE IF lvl.slotList[slotsToUse[k]].isOccupied THEN [ok |-> FALSE, level |-> lvl]
  ELSE AssignStepwise(
         [lvl EXCEPT !.slotList[slotsToUse[k]] = occupySlot(@, machine.identifier).slot],
         machine, slotsToUse, k + 1)

assignMachine_Partial(lvl, machine, slotsToUse) ==
  AssignStepwise(lvl, machine, slotsToUse, 1)

assignMachine(lvl, machine, slotsToUse) ==
  IF \E k \in 1..Len(slotsToUse) : lvl.slotList[slotsToUse[k]].isOccupied
  THEN [ok |-> FALSE, level |-> lvl]
  ELSE [ok |-> TRUE,
        level |-> [lvl EXCEPT !.slotList =
                     OccupyAll(lvl.slotList, machine.identifier, slotsToUse, 1)]]

\* mutant: the scan stops at the first matching slot
removeMachine_FirstOnly(lvl, machineId) ==
  LET hit(s) == s.isOccupied /\ s.occupantId = machineId
      hits == {i \in DOMAIN lvl.slotList : hit(lvl.slotList[i])}
      first == CHOOSE i \in hits : \A j \in hits : i <= j
  IN [removed |-> hits # {},
      level |-> IF hits = {} THEN lvl
                ELSE [lvl EXCEPT !.slotList[first] = vacateSlot(@).slot]]

removeMachine(lvl, machineId) ==
  LET hit(s) == s.isOccupied /\ s.occupantId = machineId
  IN [removed |-> \E i \in DOMAIN lvl.slotList : hit(lvl.slotList[i]),
      level |-> [lvl EXCEPT !.slotList =
                   [i \in DOMAIN lvl.slotList |->
                      IF hit(lvl.slotList[i]) THEN vacateSlot(lvl.slotList[i]).slot
                      ELSE lvl.slotList[i]]]]

\* mutant: the count starts at slot 1
freeSlotsCount_SkipFirst(lvl) ==
  Cardinality({i \in DOMAIN lvl.slotList : i > 0 /\ ~lvl.slotList[i].isOccupied})

RECURSIVE CountFree(_, _)
CountFree(slotList, i) ==
  IF i >= Size(slotList) THEN 0
  ELSE (IF ~slotList[i].isOccupied THEN 1 ELSE 0) + CountFree(slotList, i + 1)

freeSlotsCount(lvl) == CountFree(lvl.slotList, 0)

\* ------------------------------------------------------------------ Garage
Garage(totalLevels, slotsEach) ==
  [i \in 0..(Built(totalLevels) - 1) |-> Level(i, slotsEach)]

\* what an operation prints
Out(text, id, level, slots, kind, counts) ==
  [text |-> text, id |-> id, level |-> level, slots |-> slots, kind |-> kind,
   counts |-> counts]

Msg(text, id) == Out(text, id, -1, <<>>, "", <<>>)

\* mutant: the levels are scanned from the last one down
RECURSIVE StoreScan_Down(_, _, _)
StoreScan_Down(lvls, machine, i) ==
  IF i >= Size(lvls)
  THEN [found |-> FALSE, levels |-> lvls, levelIndex |-> -1, slotIndices |-> <<>>]
  ELSE LET j == Size(lvls) - 1 - i
           slotIndices == spotsAvailable(lvls[j], machine)
           a == assignMachine(lvls[j], machine, slotIndices)
       IN IF slotIndices # <<>> /\ a.ok
          THEN [found |-> TRUE, levels |-> [lvls EXCEPT ![j] = a.level],
                levelIndex |-> lvls[j].levelIndex, slotIndices |-> slotIndices]
          ELSE StoreScan_Down(lvls, machine, i + 1)

\* the loop of storeMachine over the levels, from level i on
RECURSIVE StoreScan(_, _, _)
StoreScan(lvls, machine, i) ==
  IF i >= Size(lvls)
  THEN [found |-> FALSE, levels |-> lvls, levelIndex |-> -1, slotIndices |-> <<>>]
  ELSE LET slotIndices == spotsAvailable(lvls[i], machine)
           a == assignMachine(lvls[i], machine, slotIndices)
       IN IF slotIndices # <<>> /\ a.ok
          THEN [found |-> TRUE, levels |-> [lvls EXCEPT ![i] = a.level],
                levelIndex |-> lvls[i].levelIndex, slotIndices |-> slotIndices]
          ELSE StoreScan(lvls, machine, i + 1)

\* map.count(key)
count(map, key) == IF key \in DOMAIN map THEN 1 ELSE 0

\* map[key] = value
Put(map, key, value) ==
  [k \in DOMAIN map \cup {key} |-> IF k = key THEN value ELSE map[k]]

\* map.erase(key)
Erase(map, key) == [k \in DOMAIN map \ {key} |-> map[k]]

\* the test `machineLocations.count(machine.identifier)` of storeMachine
stored_Never(machineId) == FALSE

stored(machineId) == count(machineLocations, machineId) # 0

storeMachine(machine) ==
  IF stored(machine.identifier)
  THEN /\ output' = Msg("AlreadyParked", machine.identifier)
       /\ ret' = "false"
       /\ UNCHANGED garage
  ELSE LET r == StoreScan(levels, machine, 0)
       IN IF r.found
          THEN /\ levels' = r.levels
               /\ machineLocations' =
                    Put(machineLocations, machine.identifier,
                        [first |-> r.levelIndex, second |-> r.slotIndices])
               /\ machineCatalog' = Put(machineCatalog, machine.identifier, machine)
               /\ output' = Out("Stored", machine.identifier, r.levelIndex,
                                r.slotIndices, "", <<>>)
               /\ ret' = "true"
          ELSE /\ output' = Msg("NoSpace", machine.identifier)
               /\ ret' = "false"
               /\ UNCHANGED garage

\* mutant: the not-found test reads the map with operator[] and so creates an entry
unparkMachine_Insert(machineId) ==
  IF count(machineLocations, machineId) = 0
  THEN /\ output' = Msg("NotFound", machineId)
       /\ ret' = "false"
       /\ machineLocations' =
            Put(machineLocations, machineId, [first |-> 0, second |-> <<>>])
       /\ UNCHANGED <<levels, machineCatalog>>
  ELSE LET whichLevel == machineLocations[machineId].first
           r == removeMachine(levels[whichLevel], machineId)
       IN IF r.removed
          THEN /\ levels' = [levels EXCEPT ![whichLevel] = r.level]
               /\ machineLocations' = Erase(machineLocations, machineId)
               /\ machineCatalog' = Erase(machineCatalog, machineId)
               /\ output' = Out("Removed", machineId, whichLevel, <<>>, "", <<>>)
               /\ ret' = "true"
          ELSE /\ output' = Msg("", machineId)
               /\ ret' = "false"
               /\ UNCHANGED garage

unparkMachine(machineId) ==
  IF count(machineLocations, machineId) = 0
  THEN /\ output' = Msg("NotFound", machineId)
       /\ ret' = "false"
       /\ UNCHANGED garage
  ELSE LET whichLevel == machineLocations[machineId].first
           r == removeMachine(levels[whichLevel], machineId)
       IN IF r.removed
          THEN /\ levels' = [levels EXCEPT ![whichLevel] = r.level]
               /\ machineLocations' = Erase(machineLocations, machineId)
               /\ machineCatalog' = Erase(machineCatalog, machineId)
               /\ output' = Out("Removed", machineId, whichLevel, <<>>, "", <<>>)
               /\ ret' = "true"
          ELSE /\ output' = Msg("", machineId)
               /\ ret' = "false"
               /\ UNCHANGED garage

checkAvailability ==
  /\ output' = Out("Availability", "", -1, <<>>, "",
                   [i \in 1..Size(levels) |-> freeSlotsCount(levels[i - 1])])
  /\ ret' = "void"
  /\ UNCHANGED garage

\* mutant: only the first level is looked at
FullScan_FirstLevel(lvls, i) ==
  IF i >= Size(lvls) THEN "Full"
  ELSE IF freeSlotsCount(lvls[i]) > 0 THEN "SpaceAvailable"
  ELSE "Full"

RECURSIVE FullScan(_, _)
FullScan(lvls, i) ==
  IF i >= Size(lvls) THEN "Full"
  ELSE IF freeSlotsCount(lvls[i]) > 0 THEN "SpaceAvailable"
  ELSE FullScan(lvls, i + 1)

checkIfFull ==
  /\ output' = Msg(FullScan(levels, 0), "")
  /\ ret' = "void"
  /\ UNCHANGED garage

\* mutant: the maps are read with operator[] before the not-found test
locateMachine_Insert(machineId) ==
  IF count(machineLocations, machineId) = 0
  THEN /\ output' = Msg("CouldNotFind", machineId)
       /\ ret' = "void"
       /\ machineLocations' =
            Put(machineLocations, machineId, [first |-> 0, second |-> <<>>])
       /\ machineCatalog' = Put(machineCatalog, machineId, DefaultMachine)
       /\ UNCHANGED levels
  ELSE LET entry == machineLocations[machineId]
       IN /\ output' = Out("Located", machineId, entry.first, entry.second,
                           kindToString(machineCatalog[machineId].kind), <<>>)
          /\ ret' = "void"
          /\ UNCHANGED garage

\* operator[] of the catalog inserts a default Machine for a missing key
locateMachine(machineId) ==
  IF count(machineLocations, machineId) = 0
  THEN /\ output' = Msg("CouldNotFind", machineId)
       /\ ret' = "void"
       /\ UNCHANGED garage
  ELSE LET entry == machineLocations[machineId]
           catalog == IF machineId \in DOMAIN machineCatalog THEN machineCatalog
                      ELSE Put(machineCatalog, machineId, DefaultMachine)
       IN /\ machineCatalog' = catalog
          /\ output' = Out("Located", machineId, entry.first, entry.second,
                           kindToString(catalog[machineId].kind), <<>>)
          /\ ret' = "void"
          /\ UNCHANGED <<levels, machineLocations>>

showAllCommands ==
  /\ output' = Msg("Commands", "")
  /\ UNCHANGED garage

\* no park/unpark/park round trip is under way
NoTrip ==
  [phase |-> 0, machine |-> NoMachine, levels |-> <<>>, locations |-> <<>>,
   catalog |-> <<>>, first |-> [first |-> -1, second |-> <<>>]]

\* std::mutex garageMutex: unlocked, or the thread that holds it
Unlocked == "unlocked"

\* a thread that is in no Garage method
\* what a call returns, prints and leaves behind
Outcome(r, text, lv, locs, cat) ==
  [ret |-> r, text |-> text, levels |-> lv, locations |-> locs, catalog |-> cat]

NoOutcome == Outcome("none", "", <<>>, <<>>, <<>>)

IdleThread ==
  [at |-> "idle", op |-> "", machine |-> NoMachine, i |-> 0, slotIndices |-> <<>>,
   ret |-> "none", text |-> "", serial |-> NoOutcome]

\* ------------------------------------------------------------------ main
\* the command words main compares `cmd` with
CommandWords ==
  {"add_machine", "unpark_machine", "check_availability", "check_full",
   "locate_machine", "commands", "quit"}

\* words that are no command; `cin >> cmd` leaves the empty word once the
\* input is exhausted
OtherWords == {"", "park"}

Init ==
  /\ levelCount \in Dims(MaxLevels)
  /\ slotsPerLevel \in Dims(MaxSlots)
  /\ levels = Garage(levelCount, slotsPerLevel)
  /\ machineLocations = <<>>
  /\ machineCatalog = <<>>
  /\ pc = "loop"
  /\ trip = NoTrip
  /\ garageMutex = Unlocked
  /\ threads = [t \in Threads |-> IdleThread]
  /\ cmd = ""
  /\ arg = NoMachine
  /\ ret = "none"
  /\ output = Msg("Commands", "")

AddMachine(id, kindStr) ==
  /\ pc = "loop"
  /\ cmd' = "add_machine"
  /\ arg' = Machine(id, ParseKind(kindStr))
  /\ storeMachine(Machine(id, ParseKind(kindStr)))
  /\ UNCHANGED <<trip, conc, levelCount, slotsPerLevel, pc>>

UnparkMachine(id) ==
  /\ pc = "loop"
  /\ cmd' = "unpark_machine"
  /\ arg' = Machine(id, "")
  /\ unparkMachine(id)
  /\ UNCHANGED <<trip, conc, levelCount, slotsPerLevel, pc>>

CheckAvailability ==
  /\ pc = "loop"
  /\ cmd' = "check_availability"
  /\ arg' = NoMachine
  /\ checkAvailability
  /\ UNCHANGED <<trip, conc, levelCount, slotsPerLevel, pc>>

CheckFull ==
  /\ pc = "loop"
  /\ cmd' = "check_full"
  /\ arg' = NoMachine
  /\ checkIfFull
  /\ UNCHANGED <<trip, conc, levelCount, slotsPerLevel, pc>>

LocateMachine(id) ==
  /\ pc = "loop"
  /\ cmd' = "locate_machine"
  /\ arg' = Machine(id, "")
  /\ locateMachine(id)
  /\ UNCHANGED <<trip, conc, levelCount, slotsPerLevel, pc>>

Commands ==
  /\ pc = "loop"
  /\ cmd' = "commands"
  /\ arg' = NoMachine
  /\ ret' = "void"
  /\ showAllCommands
  /\ UNCHANGED <<trip, conc, levelCount, slotsPerLevel, pc>>

Quit ==
  /\ pc = "loop"
  /\ cmd' = "quit"
  /\ arg' = NoMachine
  /\ ret' = "none"
  /\ output' = Msg("Exiting", "")
  /\ pc' = "exited"
  /\ UNCHANGED <<trip, conc, levelCount, slotsPerLevel, garage>>

\* mutant: the final else leaves the loop
Unknown_Break(word) ==
  /\ pc = "loop"
  /\ cmd' = word
  /\ arg' = NoMachine
  /\ ret' = "none"
  /\ output' = Msg("Unrecognized", "")
  /\ pc' = "exited"
  /\ UNCHANGED <<trip, conc, levelCount, slotsPerLevel, garage>>

Unknown(word) ==
  /\ pc = "loop"
  /\ cmd' = word
  /\ arg' = NoMachine
  /\ ret' = "none"
  /\ output' = Msg("Unrecognized", "")
  /\ UNCHANGED <<trip, conc, levelCount, slotsPerLevel, pc, garage>>

Next ==
  \/ \E id \in Ids, kindStr \in KindStrs : AddMachine(id, kindStr)
  \/ \E id \in Ids : UnparkMachine(id)
  \/ CheckAvailability
  \/ CheckFull
  \/ \E id \in Ids : LocateMachine(id)
  \/ Commands
  \/ Quit
  \/ \E word \in OtherWords : Unknown(word)

Spec == Init /\ [][Next]_vars

\* A Garage in the inconsistent state the last branch of unparkMachine is
\* written for: the location map holds a record that no slot backs.
InitStale ==
  /\ levelCount \in 1..MaxLevels
  /\ slotsPerLevel \in 1..MaxSlots
  /\ levels = Garage(levelCount, slotsPerLevel)
  /\ \E id \in Ids :
       /\ machineLocations = Put(<<>>, id, [first |-> 0, second |-> <<0>>])
       /\ machineCatalog = Put(<<>>, id, Machine(id, "Car"))
  /\ pc = "loop"
  /\ trip = NoTrip
  /\ garageMutex = Unlocked
  /\ threads = [t \in Threads |-> IdleThread]
  /\ cmd = ""
  /\ arg = NoMachine
  /\ ret = "none"
  /\ output = Msg("Commands", "")

SpecStale == InitStale /\ [][Next]_vars

\* ------------------------------------------------------------------ round trip
\* The command loop, in which a successful add_machine may be followed at once
\* by unpark_machine of the same identifier and the same add_machine again.
TripPark(id, kindStr) ==
  /\ pc = "loop"
  /\ trip.phase = 0
  /\ cmd' = "add_machine"
  /\ arg' = Machine(id, ParseKind(kindStr))
  /\ storeMachine(Machine(id, ParseKind(kindStr)))
  /\ ret' = "true"
  /\ trip' = [phase |-> 1, machine |-> Machine(id, ParseKind(kindStr)),
              levels |-> levels, locations |-> machineLocations,
              catalog |-> machineCatalog, first |-> machineLocations'[id]]
  /\ UNCHANGED <<conc, levelCount, slotsPerLevel, pc>>

TripUnpark ==
  /\ pc = "loop"
  /\ trip.phase = 1
  /\ cmd' = "unpark_machine"
  /\ arg' = Machine(trip.machine.identifier, "")
  /\ unparkMachine(trip.machine.identifier)
  /\ trip' = [trip EXCEPT !.phase = 2]
  /\ UNCHANGED <<conc, levelCount, slotsPerLevel, pc>>

TripRepark ==
  /\ pc = "loop"
  /\ trip.phase = 2
  /\ cmd' = "add_machine"
  /\ arg' = trip.machine
  /\ storeMachine(trip.machine)
  /\ trip' = [trip EXCEPT !.phase = 3]
  /\ UNCHANGED <<conc, levelCount, slotsPerLevel, pc>>

TripEnd ==
  /\ trip.phase = 3
  /\ trip' = NoTrip
  /\ UNCHANGED <<conc, levelCount, slotsPerLevel, pc, garage, cmd, arg, ret, output>>

Command ==
  /\ trip.phase = 0
  /\ Next

NextTrip ==
  \/ Command
  \/ \E id \in Ids, kindStr \in KindStrs : TripPark(id, kindStr)
  \/ TripUnpark
  \/ TripRepark
  \/ TripEnd

SpecTrip == Init /\ [][NextTrip]_vars

\* ------------------------------------------------------------------ Level
\* One Level object used directly through its public methods.
LevelIds == {"", "A1"}

SlotLists(lvl) == UNION {[1..n -> DOMAIN lvl.slotList] : n \in 0..MaxList}

InitLevel ==
  /\ levelCount = 1
  /\ slotsPerLevel \in 1..MaxSlots
  /\ levels = Garage(levelCount, slotsPerLevel)
  /\ machineLocations = <<>>
  /\ machineCatalog = <<>>
  /\ pc = "level"
  /\ trip = NoTrip
  /\ garageMutex = Unlocked
  /\ threads = [t \in Threads |-> IdleThread]
  /\ cmd = ""
  /\ arg = NoMachine
  /\ ret = "none"
  /\ output = Msg("", "")

LevelAssign(id, slotsToUse) ==
  LET a == assignMachine(levels[0], Machine(id, "Car"), slotsToUse)
  IN /\ pc = "level"
     /\ cmd' = "assignMachine"
     /\ arg' = Machine(id, "Car")
     /\ output' = Out("", id, 0, slotsToUse, "", <<>>)
     /\ ret' = (IF a.ok THEN "true" ELSE "false")
     /\ levels' = [levels EXCEPT ![0] = a.level]
     /\ UNCHANGED <<trip, conc, levelCount, slotsPerLevel, machineLocations, machineCatalog, pc>>

LevelRemove(id) ==
  LET r == removeMachine(levels[0], id)
  IN /\ pc = "level"
     /\ cmd' = "removeMachine"
     /\ arg' = Machine(id, "")
     /\ output' = Msg("", id)
     /\ ret' = (IF r.removed THEN "true" ELSE "false")
     /\ levels' = [levels EXCEPT ![0] = r.level]
     /\ UNCHANGED <<trip, conc, levelCount, slotsPerLevel, machineLocations, machineCatalog, pc>>

NextLevel ==
  \/ \E id \in LevelIds : \E slotsToUse \in SlotLists(levels[0]) :
       LevelAssign(id, slotsToUse)
  \/ \E id \in LevelIds : LevelRemove(id)

SpecLevel == InitLevel /\ [][NextLevel]_vars

\* ------------------------------------------------------------------ threads
\* Threads that call the public methods of one Garage. A method is a
\* sequence of steps: the lock_guard, the statements of its body, the return
\* (which destroys the lock_guard).
ConcGarages == (1..MaxLevels) \X (1..MaxSlots)

ConcMachines ==
  {Machine("A1", "Car"), Machine("A1", "Truck"), Machine("B1", "Car"),
   Machine("B1", "Truck")}

ConcIds == {m.identifier : m \in ConcMachines}

\* the outcome of each method when nothing runs between its lock and its return
SerialStore(machine) ==
  IF stored(machine.identifier)
  THEN Outcome("false", "AlreadyParked", levels, machineLocations, machineCatalog)
  ELSE LET r == StoreScan(levels, machine, 0)
       IN IF r.found
          THEN Outcome("true", "Stored", r.levels,
                       Put(machineLocations, machine.identifier,
                           [first |-> r.levelIndex, second |-> r.slotIndices]),
                       Put(machineCatalog, machine.identifier, machine))
          ELSE Outcome("false", "NoSpace", levels, machineLocations, machineCatalog)

SerialUnpark(machineId) ==
  IF count(machineLocations, machineId) = 0
  THEN Outcome("false", "NotFound", levels, machineLocations, machineCatalog)
  ELSE LET whichLevel == machineLocations[machineId].first
           r == removeMachine(levels[whichLevel], machineId)
       IN IF r.removed
          THEN Outcome("true", "Removed", [levels EXCEPT ![whichLevel] = r.level],
                       Erase(machineLocations, machineId),
                       Erase(machineCatalog, machineId))
          ELSE Outcome("false", "", levels, machineLocations, machineCatalog)

SerialQuery(op, machineId) ==
  Outcome("void",
          CASE op = "checkAvailability" -> "Availability"
            [] op = "checkIfFull" -> FullScan(levels, 0)
            [] OTHER -> IF count(machineLocations, machineId) = 0
                        THEN "CouldNotFind" ELSE "Located",
          levels, machineLocations, machineCatalog)

Serial(op, machine) ==
  CASE op = "storeMachine" -> SerialStore(machine)
    [] op = "unparkMachine" -> SerialUnpark(machine.identifier)
    [] OTHER -> SerialQuery(op, machine.identifier)

InitConc ==
  /\ \E g \in ConcGarages : levelCount = g[1] /\ slotsPerLevel = g[2]
  /\ levels = Garage(levelCount, slotsPerLevel)
  /\ machineLocations = <<>>
  /\ machineCatalog = <<>>
  /\ pc = "threads"
  /\ trip = NoTrip
  /\ garageMutex = Unlocked
  /\ threads = [t \in Threads |-> IdleThread]
  /\ cmd = ""
  /\ arg = NoMachine
  /\ ret = "none"
  /\ output = Msg("", "")

\* what a step of a thread leaves alone besides the garage
ConcFrame == UNCHANGED <<levelCount, slotsPerLevel, pc, cmd, arg, ret, output, trip>>

Goto(t, rec) == threads' = [threads EXCEPT ![t] = rec]

\* thread t is at position at of method op
At(t, op, at) == threads[t].op = op /\ threads[t].at = at

\* the thread enters a method
Call(t, op, machine) ==
  /\ threads[t].at = "idle"
  /\ Goto(t, [IdleThread EXCEPT !.at = "lock", !.op = op, !.machine = machine])
  /\ UNCHANGED <<garage, garageMutex>>
  /\ ConcFrame

\* a lock_guard that does not wait for the mutex
Lock_NoWait(t) ==
  /\ threads[t].at = "lock"
  /\ garageMutex' = t
  /\ Goto(t, [threads[t] EXCEPT
                !.at = "body",
                !.serial = Serial(threads[t].op, threads[t].machine)])
  /\ UNCHANGED garage
  /\ ConcFrame

\* lock_guard<mutex> lock(garageMutex)
Lock(t) ==
  /\ threads[t].at = "lock"
  /\ garageMutex = Unlocked
  /\ garageMutex' = t
  /\ Goto(t, [threads[t] EXCEPT
                !.at = "body",
                !.serial = Serial(threads[t].op, threads[t].machine)])
  /\ UNCHANGED garage
  /\ ConcFrame

\* a return that releases the mutex only when the method reports success
Unlock_OnSuccessOnly(t) ==
  /\ threads[t].at = "return"
  /\ garageMutex' = (IF threads[t].ret = "false" THEN garageMutex ELSE Unlocked)
  /\ Goto(t, IdleThread)
  /\ UNCHANGED garage
  /\ ConcFrame

\* return: the lock_guard goes out of scope
Unlock(t) ==
  /\ threads[t].at = "return"
  /\ garageMutex' = Unlocked
  /\ Goto(t, IdleThread)
  /\ UNCHANGED garage
  /\ ConcFrame

Return(t, r, text) ==
  Goto(t, [threads[t] EXCEPT !.at = "return", !.ret = r, !.text = text])

\* storeMachine: the already-parked test
StoreTest(t) ==
  /\ At(t, "storeMachine", "body")
  /\ IF stored(threads[t].machine.identifier)
     THEN Return(t, "false", "AlreadyParked")
     ELSE Goto(t, [threads[t] EXCEPT !.at = "search", !.i = 0])
  /\ UNCHANGED <<garage, garageMutex>>
  /\ ConcFrame

\* storeMachine: lvl.spotsAvailable(machine) for the next level
StoreSearch(t) ==
  /\ At(t, "storeMachine", "search")
  /\ IF threads[t].i >= Size(levels)
     THEN Return(t, "false", "NoSpace")
     ELSE LET slotIndices == spotsAvailable(levels[threads[t].i], threads[t].machine)
          IN IF slotIndices # <<>>
             THEN Goto(t, [threads[t] EXCEPT !.at = "assign",
                                             !.slotIndices = slotIndices])
             ELSE Goto(t, [threads[t] EXCEPT !.i = @ + 1])
  /\ UNCHANGED <<garage, garageMutex>>
  /\ ConcFrame

\* storeMachine: lvl.assignMachine(machine, slotIndices)
StoreAssign(t) ==
  /\ At(t, "storeMachine", "assign")
  /\ LET a == assignMachine(levels[threads[t].i], threads[t].machine,
                            threads[t].slotIndices)
     IN IF a.ok
        THEN /\ levels' = [levels EXCEPT ![threads[t].i] = a.level]
             /\ Goto(t, [threads[t] EXCEPT !.at = "record"])
        ELSE /\ levels' = levels
             /\ Goto(t, [threads[t] EXCEPT !.at = "search", !.i = @ + 1,
                                           !.slotIndices = <<>>])
  /\ UNCHANGED <<machineLocations, machineCatalog, garageMutex>>
  /\ ConcFrame

\* storeMachine: the two map assignments
StoreRecord(t) ==
  /\ At(t, "storeMachine", "record")
  /\ machineLocations' =
       Put(machineLocations, threads[t].machine.identifier,
           [first |-> levels[threads[t].i].levelIndex,
            second |-> threads[t].slotIndices])
  /\ machineCatalog' =
       Put(machineCatalog, threads[t].machine.identifier, threads[t].machine)
  /\ Return(t, "true", "Stored")
  /\ UNCHANGED <<levels, garageMutex>>
  /\ ConcFrame

\* unparkMachine: the not-found test
UnparkTest(t) ==
  /\ At(t, "unparkMachine", "body")
  /\ IF count(machineLocations, threads[t].machine.identifier) = 0
     THEN Return(t, "false", "NotFound")
     ELSE Goto(t, [threads[t] EXCEPT
                     !.at = "remove",
                     !.i = machineLocations[threads[t].machine.identifier].first])
  /\ UNCHANGED <<garage, garageMutex>>
  /\ ConcFrame

\* unparkMachine: levels[whichLevel].removeMachine(machineId)
UnparkRemove(t) ==
  /\ At(t, "unparkMachine", "remove")
  /\ LET r == removeMachine(levels[threads[t].i], threads[t].machine.identifier)
     IN IF r.removed
        THEN /\ levels' = [levels EXCEPT ![threads[t].i] = r.level]
             /\ Goto(t, [threads[t] EXCEPT !.at = "erase"])
        ELSE /\ levels' = levels
             /\ Return(t, "false", "")
  /\ UNCHANGED <<machineLocations, machineCatalog, garageMutex>>
  /\ ConcFrame

\* unparkMachine: the two erase calls
UnparkErase(t) ==
  /\ At(t, "unparkMachine", "erase")
  /\ machineLocations' = Erase(machineLocations, threads[t].machine.identifier)
  /\ machineCatalog' = Erase(machineCatalog, threads[t].machine.identifier)
  /\ Return(t, "true", "Removed")
  /\ UNCHANGED <<levels, garageMutex>>
  /\ ConcFrame

\* checkAvailability: one level of the loop
AvailCount(t) ==
  /\ At(t, "checkAvailability", "body")
  /\ IF threads[t].i >= Size(levels)
     THEN Return(t, "void", "Availability")
     ELSE Goto(t, [threads[t] EXCEPT !.i = @ + 1])
  /\ UNCHANGED <<garage, garageMutex>>
  /\ ConcFrame

\* checkIfFull: one level of the loop
FullCount(t) ==
  /\ At(t, "checkIfFull", "body")
  /\ IF threads[t].i >= Size(levels)
     THEN Return(t, "void", "Full")
     ELSE IF freeSlotsCount(levels[threads[t].i]) > 0
          THEN Return(t, "void", "SpaceAvailable")
          ELSE Goto(t, [threads[t] EXCEPT !.i = @ + 1])
  /\ UNCHANGED <<garage, garageMutex>>
  /\ ConcFrame

\* locateMachine: the not-found test
LocateTest(t) ==
  /\ At(t, "locateMachine", "body")
  /\ IF count(machineLocations, threads[t].machine.identifier) = 0
     THEN Return(t, "void", "CouldNotFind")
     ELSE Goto(t, [threads[t] EXCEPT !.at = "read"])
  /\ UNCHANGED <<garage, garageMutex>>
  /\ ConcFrame

\* locateMachine: the two operator[] reads
LocateRead(t) ==
  /\ At(t, "locateMachine", "read")
  /\ machineLocations' =
       (IF threads[t].machine.identifier \in DOMAIN machineLocations
        THEN machineLocations
        ELSE Put(machineLocations, threads[t].machine.identifier,
                 [first |-> 0, second |-> <<>>]))
  /\ machineCatalog' =
       (IF threads[t].machine.identifier \in DOMAIN machineCatalog
        THEN machineCatalog
        ELSE Put(machineCatalog, threads[t].machine.identifier, DefaultMachine))
  /\ Return(t, "void", "Located")
  /\ UNCHANGED <<levels, garageMutex>>
  /\ ConcFrame

\* a step inside a method, from the lock_guard to the return
Step(t) ==
  \/ Lock(t)
  \/ StoreTest(t) \/ StoreSearch(t) \/ StoreAssign(t) \/ StoreRecord(t)
  \/ UnparkTest(t) \/ UnparkRemove(t) \/ UnparkErase(t)
  \/ AvailCount(t) \/ FullCount(t)
  \/ LocateTest(t) \/ LocateRead(t)
  \/ Unlock(t)

Calls(t) ==
  \/ \E machine \in ConcMachines : Call(t, "storeMachine", machine)
  \/ \E id \in ConcIds : Call(t, "unparkMachine", Machine(id, ""))
  \/ \E id \in ConcIds : Call(t, "locateMachine", Machine(id, ""))
  \/ Call(t, "checkAvailability", NoMachine)
  \/ Call(t, "checkIfFull", NoMachine)

NextConc == \E t \in Threads : Calls(t) \/ Step(t)

SpecConc == InitConc /\ [][NextConc]_vars

\* the garages with the largest number of levels
InitConcFair == InitConc /\ levelCount = MaxLevels

\* every thread that can take a step of a method eventually takes one; a
\* thread is not obliged to call again
SpecConcFair ==
  InitConcFair /\ [][NextConc]_vars /\ \A t \in Threads : WF_vars(Step(t))

\* ------------------------------------------------------------------ properties
Kinds == {"Bike", "Car", "Truck"}

LevelIdx == DOMAIN levels

SlotIdx(l) == DOMAIN levels[l].slotList

\* the set of the elements of a sequence
Range(seq) == {seq[k] : k \in 1..Len(seq)}

\* slot i of level l is free in the level list lv
FreeAt(lv, l, i) == ~lv[l].slotList[i].isOccupied

FreeSet(lv, l) == {i \in DOMAIN lv[l].slotList : FreeAt(lv, l, i)}

\* the starting indices at which n slots are free on level l
Fits(lv, l, n) ==
  IF n = 1 THEN FreeSet(lv, l)
  ELSE {i \in FreeSet(lv, l) : i + 1 \in FreeSet(lv, l)}

RoomLevels(lv, n) == {l \in DOMAIN lv : Fits(lv, l, n) # {}}

Least(S) == CHOOSE x \in S : \A y \in S : x <= y

Need(kind) == IF kind = "Truck" THEN 2 ELSE 1

RECURSIVE SumOver(_, _)
SumOver(f, S) ==
  IF S = {} THEN 0
  ELSE LET x == CHOOSE y \in S : TRUE IN f[x] + SumOver(f, S \ {x})

\* the identifiers whose location record lists slot i of level l
Holders(l, i) ==
  {id \in DOMAIN machineLocations :
     machineLocations[id].first = l /\ i \in Range(machineLocations[id].second)}

\* C1: the location map and the catalog have the same keys; every slot a
\* location record lists is occupied by the record's identifier; every occupied
\* slot is listed by the record of its occupant and by no other record.
C1_MapsAndSlotsAgree ==
  /\ \A id \in Ids : id \in DOMAIN machineLocations <=> id \in DOMAIN machineCatalog
  /\ DOMAIN machineLocations \subseteq Ids
  /\ \A id \in DOMAIN machineLocations :
       \A i \in Range(machineLocations[id].second) :
         /\ machineLocations[id].first \in LevelIdx
         /\ i \in SlotIdx(machineLocations[id].first)
         /\ levels[machineLocations[id].first].slotList[i].isOccupied
         /\ levels[machineLocations[id].first].slotList[i].occupantId = id
  /\ \A l \in LevelIdx : \A i \in SlotIdx(l) :
       levels[l].slotList[i].isOccupied =>
         Holders(l, i) = {levels[l].slotList[i].occupantId}

C1_Witness ==
  /\ cmd = "unpark_machine" /\ ret = "true"
  /\ \E a, b \in DOMAIN machineLocations :
       /\ machineCatalog[a].kind = "Truck"
       /\ machineCatalog[b].kind # "Truck"
       /\ machineLocations[a].first # machineLocations[b].first

\* C2: a location record holds as many slots as its vehicle needs, all of one
\* existing level; the two slots of a Truck are i and i+1; no slot is listed
\* by the records of two identifiers.
C2_RecordShape ==
  /\ \A id \in DOMAIN machineLocations :
       LET loc == machineLocations[id]
       IN /\ id \in DOMAIN machineCatalog
          /\ Len(loc.second) = Need(machineCatalog[id].kind)
          /\ loc.first \in 0..(Built(levelCount) - 1)
          /\ \A k \in 1..Len(loc.second) :
               loc.second[k] \in 0..(Built(slotsPerLevel) - 1)
          /\ Len(loc.second) = 2 => loc.second[2] = loc.second[1] + 1
  /\ \A a, b \in DOMAIN machineLocations :
       (a # b /\ machineLocations[a].first = machineLocations[b].first) =>
         Range(machineLocations[a].second) \cap Range(machineLocations[b].second) = {}

C2_Witness ==
  \E a, b \in DOMAIN machineLocations :
    /\ a # b
    /\ machineLocations[a].first = machineLocations[b].first
    /\ Len(machineLocations[a].second) = 2
    /\ machineLocations[a].second[1] > 0

\* C3: a Truck is parked only where one level had two adjacent free slots;
\* exactly these two slots change, to occupied by the identifier, the level's
\* free count drops by 2 and no other level's free count changes.
C3_LargePark ==
  [][\A id \in Ids :
       (cmd' = "add_machine" /\ arg' = Machine(id, "Truck") /\ ret' = "true") =>
         \E l \in LevelIdx : \E i \in SlotIdx(l) :
           /\ i + 1 \in SlotIdx(l)
           /\ FreeAt(levels, l, i) /\ FreeAt(levels, l, i + 1)
           /\ DOMAIN levels' = DOMAIN levels
           /\ \A m \in LevelIdx : DOMAIN levels'[m].slotList = SlotIdx(m)
           /\ \A m \in LevelIdx : \A j \in SlotIdx(m) :
                IF m = l /\ j \in {i, i + 1}
                THEN /\ levels'[m].slotList[j].isOccupied
                     /\ levels'[m].slotList[j].occupantId = id
                ELSE levels'[m].slotList[j] = levels[m].slotList[j]
           /\ Cardinality(FreeSet(levels', l)) = Cardinality(FreeSet(levels, l)) - 2
           /\ \A m \in LevelIdx \ {l} :
                Cardinality(FreeSet(levels', m)) = Cardinality(FreeSet(levels, m))
    ]_vars

\* a Truck went to level 1 although level 0 still had a free slot
C3_Witness ==
  /\ cmd = "add_machine" /\ arg.kind = "Truck" /\ ret = "true"
  /\ output.level = 1
  /\ FreeSet(levels, 0) # {}

\* C4: a park of an identifier without a location record fails with "no
\* suitable space" exactly when no level offers the needed space, and
\* succeeds whenever some level offers it.
C4_FailsIffNoRoom ==
  [][\A id \in Ids : \A k \in Kinds :
       (cmd' = "add_machine" /\ arg' = Machine(id, k)
          /\ id \notin DOMAIN machineLocations) =>
         /\ (ret' = "false" /\ output'.text = "NoSpace")
              <=> RoomLevels(levels, Need(k)) = {}
         /\ RoomLevels(levels, Need(k)) # {} =>
              (ret' = "true" /\ output'.text = "Stored")
    ]_vars

\* a Truck is refused although two slots are free in the garage
C4_Witness ==
  /\ cmd = "add_machine" /\ arg.kind = "Truck"
  /\ ret = "false" /\ output.text = "NoSpace"
  /\ SumOver([l \in LevelIdx |-> Cardinality(FreeSet(levels, l))], LevelIdx) >= 2

\* the lowest level with room for n slots, and the lowest fitting slots on it
LowestLevel(n) == Least(RoomLevels(levels, n))

LowestSlots(n) ==
  LET i == Least(Fits(levels, LowestLevel(n), n))
  IN IF n = 1 THEN <<i>> ELSE <<i, i + 1>>

\* C5: a successful park uses the lowest level that has the needed space and
\* on it the lowest free slot, or the adjacent free pair with the lowest
\* first index.
C5_LowestFirst ==
  [][\A id \in Ids : \A k \in Kinds :
       (cmd' = "add_machine" /\ arg' = Machine(id, k) /\ ret' = "true") =>
         /\ RoomLevels(levels, Need(k)) # {}
         /\ machineLocations'[id] =
              [first |-> LowestLevel(Need(k)), second |-> LowestSlots(Need(k))]
         /\ output'.level = LowestLevel(Need(k))
         /\ output'.slots = LowestSlots(Need(k))
         /\ \A j \in Range(LowestSlots(Need(k))) :
              levels'[LowestLevel(Need(k))].slotList[j].occupantId = id
    ]_vars

\* a vehicle went to level 1, past an occupied slot 0 of that level
C5_Witness ==
  /\ cmd = "add_machine" /\ ret = "true"
  /\ output.level = 1
  /\ output.slots[1] > 0

\* C6: a park of an identifier that has a location record fails with
\* "already parked" and changes nothing, whatever the category and the free
\* space; a park of an identifier right after a successful park of it fails.
C6_DuplicatePark ==
  [][\A id \in Ids :
       /\ (cmd' = "add_machine" /\ arg'.identifier = id
             /\ id \in DOMAIN machineLocations) =>
            /\ ret' = "false"
            /\ output'.text = "AlreadyParked"
            /\ levels' = levels
            /\ machineLocations' = machineLocations
            /\ machineCatalog' = machineCatalog
       /\ (cmd = "add_machine" /\ arg.identifier = id /\ ret = "true"
             /\ cmd' = "add_machine" /\ arg'.identifier = id) =>
            /\ ret' = "false"
            /\ UNCHANGED garage
    ]_vars

\* a parked Bike is parked again as a Truck while a free pair exists
C6_Witness ==
  /\ cmd = "add_machine" /\ ret = "false" /\ output.text = "AlreadyParked"
  /\ arg.kind = "Truck"
  /\ machineCatalog[arg.identifier].kind = "Bike"
  /\ RoomLevels(levels, 2) # {}

\* C7: an unpark of an identifier without a location record fails, changes
\* no slot and no map, and creates no entry for the identifier.
C7_UnparkUnknown ==
  [][\A id \in Ids :
       (cmd' = "unpark_machine" /\ arg'.identifier = id
          /\ id \notin DOMAIN machineLocations) =>
         /\ ret' = "false"
         /\ levels' = levels
         /\ machineLocations' = machineLocations
         /\ machineCatalog' = machineCatalog
         /\ id \notin DOMAIN machineLocations'
         /\ id \notin DOMAIN machineCatalog'
    ]_vars

C7_Witness ==
  /\ cmd = "unpark_machine" /\ ret = "false" /\ output.text = "NotFound"
  /\ arg.identifier \notin DOMAIN machineLocations
  /\ DOMAIN machineLocations # {}

\* C8: an unpark of an identifier with a location record succeeds; the slots
\* of the record are free afterwards, the identifier is in neither map, and
\* the slots and the map entries of the other identifiers are unchanged.
C8_UnparkFrame ==
  [][\A id \in Ids :
       (cmd' = "unpark_machine" /\ arg'.identifier = id
          /\ id \in DOMAIN machineLocations) =>
         LET loc == machineLocations[id]
         IN /\ ret' = "true"
            /\ \A i \in Range(loc.second) : FreeAt(levels', loc.first, i)
            /\ id \notin DOMAIN machineLocations'
            /\ id \notin DOMAIN machineCatalog'
            /\ DOMAIN machineLocations' = DOMAIN machineLocations \ {id}
            /\ DOMAIN machineCatalog' = DOMAIN machineCatalog \ {id}
            /\ \A o \in DOMAIN machineLocations \ {id} :
                 /\ machineLocations'[o] = machineLocations[o]
                 /\ machineCatalog'[o] = machineCatalog[o]
            /\ \A l \in LevelIdx : \A i \in SlotIdx(l) :
                 (levels[l].slotList[i].isOccupied
                    /\ levels[l].slotList[i].occupantId # id) =>
                   levels'[l].slotList[i] = levels[l].slotList[i]
    ]_vars

\* a Truck was unparked from a level on which another vehicle stays
C8_Witness ==
  /\ cmd = "unpark_machine" /\ ret = "true"
  /\ Cardinality(FreeSet(levels, output.level)) >= 2
  /\ \E o \in DOMAIN machineLocations : machineLocations[o].first = output.level

\* C9: the free counts of all levels add up to the number of slots of the
\* garage minus the slots needed by the vehicles of the catalog; the counts
\* that check_availability prints add up to the same number.
C9_FreeSum ==
  LET total == Size(levels) * Built(slotsPerLevel)
      used == SumOver([id \in DOMAIN machineCatalog |->
                         slotsNeeded(machineCatalog[id])], DOMAIN machineCatalog)
  IN /\ SumOver([l \in LevelIdx |-> freeSlotsCount(levels[l])], LevelIdx) = total - used
     /\ cmd = "check_availability" =>
          /\ Len(output.counts) = Size(levels)
          /\ SumOver(output.counts, DOMAIN output.counts) = total - used

C9_Witness ==
  /\ cmd = "check_availability"
  /\ Len(output.counts) = 2
  /\ output.counts[1] # output.counts[2]
  /\ \E a, b \in DOMAIN machineCatalog :
       machineCatalog[a].kind = "Truck" /\ machineCatalog[b].kind = "Car"

\* C10: check_full prints "completely full" exactly when no level has a free
\* slot, and "space available" otherwise; a garage without levels or without
\* slots is reported full.
C10_FullIffNoFree ==
  cmd = "check_full" =>
    /\ output.text \in {"Full", "SpaceAvailable"}
    /\ output.text = "Full" <=> (\A l \in LevelIdx : FreeSet(levels, l) = {})
    /\ (levelCount <= 0 \/ slotsPerLevel <= 0) => output.text = "Full"

\* space is reported although no level can take a Truck
C10_Witness ==
  /\ cmd = "check_full" /\ output.text = "SpaceAvailable"
  /\ RoomLevels(levels, 2) = {}
  /\ slotsPerLevel >= 2
  /\ FreeSet(levels, 0) = {}

\* the slots of level l that identifier id occupies
OccupiedBy(lv, l, id) ==
  {i \in DOMAIN lv[l].slotList :
     lv[l].slotList[i].isOccupied /\ lv[l].slotList[i].occupantId = id}

\* C11: locate reports not-found exactly when the identifier has no location
\* record; otherwise it reports the level and the slots the identifier
\* occupies and the category of its most recent successful park (a successful
\* park sets the category, and it stays until the identifier is unparked).
C11_Locate ==
  [][\A id \in Ids :
       /\ (cmd' = "locate_machine" /\ arg'.identifier = id) =>
            IF id \notin DOMAIN machineLocations
            THEN output'.text = "CouldNotFind"
            ELSE /\ output'.text = "Located"
                 /\ output'.id = id
                 /\ output'.level \in LevelIdx
                 /\ Range(output'.slots) = OccupiedBy(levels, output'.level, id)
                 /\ Len(output'.slots) = Cardinality(Range(output'.slots))
                 /\ \A l \in LevelIdx \ {output'.level} : OccupiedBy(levels, l, id) = {}
                 /\ output'.kind = machineCatalog[id].kind
       /\ \A k \in Kinds :
            (cmd' = "add_machine" /\ arg' = Machine(id, k) /\ ret' = "true") =>
              machineCatalog'[id].kind = k
       /\ (id \in DOMAIN machineCatalog /\ id \in DOMAIN machineCatalog') =>
            machineCatalog'[id].kind = machineCatalog[id].kind
       /\ (cmd' = "unpark_machine" /\ arg'.identifier = id /\ ret' = "true") =>
            id \notin DOMAIN machineLocations'
    ]_vars

\* a Truck is located on level 1
C11_Witness ==
  /\ cmd = "locate_machine" /\ output.text = "Located"
  /\ output.kind = "Truck" /\ output.level = 1
  /\ Len(output.slots) = 2

\* the number of status messages in what an operation printed
Printed(out) == IF out.text = "" THEN 0 ELSE 1

C15_Alternation ==
  [][/\ \A id \in Ids :
          /\ (id \notin DOMAIN machineLocations /\ id \in DOMAIN machineLocations') =>
               (cmd' = "add_machine" /\ arg'.identifier = id /\ ret' = "true")
          /\ (id \in DOMAIN machineLocations /\ id \notin DOMAIN machineLocations') =>
               (cmd' = "unpark_machine" /\ arg'.identifier = id /\ ret' = "true")
          /\ (cmd' = "add_machine" /\ arg'.identifier = id /\ ret' = "true") =>
               (id \notin DOMAIN machineLocations /\ id \in DOMAIN machineLocations')
          /\ (cmd' = "unpark_machine" /\ arg'.identifier = id /\ ret' = "true") =>
               (id \in DOMAIN machineLocations /\ id \notin DOMAIN machineLocations')
     /\ ret' = "false" => DOMAIN machineLocations' = DOMAIN machineLocations
     /\ \A l \in LevelIdx : \A i \in SlotIdx(l) :
          (levels[l].slotList[i].isOccupied /\ levels'[l].slotList[i].isOccupied) =>
            levels'[l].slotList[i].occupantId = levels[l].slotList[i].occupantId
     /\ ret' = "true" =>
          \A l \in LevelIdx : \A i \in SlotIdx(l) : \A id \in Ids :
            LET s == levels[l].slotList[i]
            IN IF s.isOccupied
               THEN /\ occupySlot(s, id) = [ok |-> FALSE, slot |-> s]
                    /\ vacateSlot(s).ok
                    /\ ~vacateSlot(s).slot.isOccupied
               ELSE /\ vacateSlot(s) = [ok |-> FALSE, slot |-> s]
                    /\ occupySlot(s, id).ok
                    /\ occupySlot(s, id).slot.isOccupied
                    /\ occupySlot(s, id).slot.occupantId = id
    ]_vars

\* slot 0 of level 0 was vacated and taken by another identifier
C15_Witness ==
  /\ cmd = "add_machine" /\ ret = "true"
  /\ output.level = 0 /\ output.slots = <<0>>
  /\ \E o \in DOMAIN machineLocations :
       machineLocations[o] = [first |-> 0, second |-> <<1>>]

\* C16: the loop is left exactly in the step that reads `quit`; after any
\* other word the program is in the loop again; a word that is no command
\* prints the error and changes no garage state.
C16_QuitOnly ==
  [][/\ (pc = "loop" /\ pc' = "exited") <=> (pc = "loop" /\ cmd' = "quit")
     /\ pc = "exited" => pc' = "exited"
     /\ (pc = "loop" /\ cmd' # "quit") => pc' = "loop"
     /\ cmd' \notin CommandWords =>
          /\ output'.text = "Unrecognized"
          /\ UNCHANGED garage
          /\ pc' = "loop"
     /\ cmd' = "quit" => (output'.text = "Exiting" /\ UNCHANGED garage)
    ]_vars

\* the empty word was read while vehicles are parked
C16_Witness ==
  /\ cmd = "" /\ output.text = "Unrecognized" /\ pc = "loop"
  /\ DOMAIN machineLocations # {}

\* C17: assignMachine with a list that names an occupied slot returns false
\* and changes no slot; otherwise it returns true, every listed slot is
\* occupied by the identifier and no other slot changes.
C17_AssignAllOrNothing ==
  [][cmd' = "assignMachine" =>
       IF \E k \in 1..Len(output'.slots) : ~FreeAt(levels, 0, output'.slots[k])
       THEN ret' = "false" /\ levels' = levels
       ELSE /\ ret' = "true"
            /\ DOMAIN levels'[0].slotList = SlotIdx(0)
            /\ \A i \in SlotIdx(0) :
                 IF i \in Range(output'.slots)
                 THEN /\ levels'[0].slotList[i].isOccupied
                      /\ levels'[0].slotList[i].occupantId = arg'.identifier
                 ELSE levels'[0].slotList[i] = levels[0].slotList[i]
    ]_vars

\* refused: the first listed slot is free, the second one is occupied
C17_Witness ==
  /\ cmd = "assignMachine" /\ ret = "false"
  /\ Len(output.slots) = 2
  /\ FreeAt(levels, 0, output.slots[1])
  /\ ~FreeAt(levels, 0, output.slots[2])

\* C18: check_availability, check_full and locate_machine change no slot and
\* neither map; locate of an unknown identifier creates no entry for it.
C18_ReadOnly ==
  [][\A id \in Ids :
       /\ cmd' \in {"check_availability", "check_full", "locate_machine"} =>
            /\ levels' = levels
            /\ machineLocations' = machineLocations
            /\ machineCatalog' = machineCatalog
       /\ (cmd' = "locate_machine" /\ arg'.identifier = id) =>
            /\ id \in DOMAIN machineLocations' <=> id \in DOMAIN machineLocations
            /\ id \in DOMAIN machineCatalog' <=> id \in DOMAIN machineCatalog
    ]_vars

\* an unknown identifier was looked up in a garage that holds vehicles
C18_Witness ==
  /\ cmd = "locate_machine" /\ output.text = "CouldNotFind"
  /\ arg.identifier \notin DOMAIN machineCatalog
  /\ DOMAIN machineCatalog # {}

\* C20: right after a successful park of v, unpark of v's identifier succeeds
\* and every slot and both maps are again what they were before the park;
\* parking v again then succeeds on the same level and slots.
C20_RoundTrip ==
  /\ trip.phase = 2 =>
       /\ ret = "true"
       /\ levels = trip.levels
       /\ machineLocations = trip.locations
       /\ machineCatalog = trip.catalog
  /\ trip.phase = 3 =>
       /\ ret = "true"
       /\ machineLocations[trip.machine.identifier] = trip.first
       /\ output.level = trip.first.first
       /\ output.slots = trip.first.second

\* the round trip of a Truck on level 1 with another vehicle in the garage
C20_Witness ==
  /\ trip.phase = 3
  /\ trip.machine.kind = "Truck"
  /\ trip.first.first = 1
  /\ DOMAIN trip.locations # {}

\* the levels of lv on which a slot is occupied by id
LevelsOf(lv, id) == {l \in DOMAIN lv : OccupiedBy(lv, l, id) # {}}

\* C19: inside storeMachine, when spotsAvailable returned a non-empty list the
\* assignMachine call on that level succeeds; under any interleaving of the
\* threads the call moves on to the next level only when the search of the
\* level came back empty, and it occupies slots on one level only.
C19_AssignSucceeds ==
  [][\A t \in Threads :
       /\ At(t, "storeMachine", "assign") =>
            /\ threads[t].slotIndices # <<>>
            /\ assignMachine(levels[threads[t].i], threads[t].machine,
                             threads[t].slotIndices).ok
            /\ threads'[t].at \in {"assign", "record"}
       /\ (threads[t].op = "storeMachine" /\ threads'[t].i = threads[t].i + 1) =>
            /\ threads[t].at = "search"
            /\ spotsAvailable(levels[threads[t].i], threads[t].machine) = <<>>
       /\ (At(t, "storeMachine", "assign") /\ threads'[t].at = "record") =>
            /\ LevelsOf(levels', threads[t].machine.identifier) = {threads[t].i}
            /\ OccupiedBy(levels', threads[t].i, threads[t].machine.identifier)
                 = Range(threads[t].slotIndices)]_vars

\* a Truck was assigned on level 1 after the search of level 0 came back
\* empty, while the other thread waits for the lock
C19_Witness ==
  \E t \in Threads :
    /\ At(t, "storeMachine", "record")
    /\ threads[t].machine.kind = "Truck"
    /\ threads[t].i = 1
    /\ \E u \in Threads \ {t} : threads[u].at = "lock" /\ threads[u].op = "storeMachine"

\* thread t is inside the body of a Garage method
Inside(t) == threads[t].at \notin {"idle", "lock"}

\* C12: with threads calling the five methods concurrently, at most one thread
\* is inside the body of a method and it holds the garage mutex from entry to
\* return; every call returns and prints what it would have if it had run
\* alone when it took the lock and leaves the garage as that run would, so
\* the execution equals the serial order of the lock acquisitions; a park
\* never succeeds for an identifier that is recorded, and two recorded
\* vehicles never share a slot.
C12_Serialized ==
  /\ \A t \in Threads : Inside(t) => garageMutex = t
  /\ \A t, u \in Threads : (Inside(t) /\ Inside(u)) => t = u
  /\ \A t \in Threads :
       threads[t].at = "return" =>
         /\ threads[t].ret = threads[t].serial.ret
         /\ threads[t].text = threads[t].serial.text
         /\ levels = threads[t].serial.levels
         /\ machineLocations = threads[t].serial.locations
         /\ machineCatalog = threads[t].serial.catalog
  /\ \A t \in Threads :
       At(t, "storeMachine", "record") =>
         threads[t].machine.identifier \notin DOMAIN machineLocations
  /\ \A a, b \in DOMAIN machineLocations :
       (a # b /\ machineLocations[a].first = machineLocations[b].first) =>
         Range(machineLocations[a].second) \cap Range(machineLocations[b].second) = {}

\* one thread returns from a successful park while the other, which called
\* park for the same identifier, waits for the lock, another vehicle being
\* parked on the same level
C12_Witness ==
  \E t \in Threads : \E u \in Threads \ {t} :
    /\ At(t, "storeMachine", "return") /\ threads[t].ret = "true"
    /\ At(u, "storeMachine", "lock")
    /\ threads[u].machine.identifier = threads[t].machine.identifier
    /\ \E b \in DOMAIN machineLocations \ {threads[t].machine.identifier} :
         machineLocations[b].first =
           machineLocations[threads[t].machine.identifier].first

\* C13 as stated: under weak fairness of the threads every invoked call
\* eventually returns, and the lock is never held by a thread that is
\* outside a method.
C13_EveryCallReturns ==
  /\ [](\A t \in Threads : garageMutex = t => Inside(t))
  /\ \A t \in Threads : (threads[t].at # "idle") ~> (threads[t].at = "idle")

\* C13, amended: every call that has taken the lock returns and releases it
\* on every exit path, the lock is never held by a thread outside a method,
\* and while a thread waits for the lock some thread is inside a method
\* again and again (no deadlock). Under weak fairness a waiting thread itself
\* may be passed over for ever by calls of the other threads.
C13_HolderReturns ==
  /\ [](\A t \in Threads : garageMutex = t => Inside(t))
  /\ [](garageMutex # Unlocked => \E t \in Threads : garageMutex = t)
  /\ \A t \in Threads : Inside(t) ~> (threads[t].at = "idle" /\ garageMutex # t)
  /\ \A t \in Threads : (threads[t].at = "lock") ~> (\E u \in Threads : Inside(u))

\* a thread is at the early return of checkIfFull while the other thread
\* waits for the lock
C13_Witness ==
  \E t \in Threads : \E u \in Threads \ {t} :
    /\ At(t, "checkIfFull", "return") /\ threads[t].text = "SpaceAvailable"
    /\ threads[u].at = "lock"
    /\ DOMAIN machineLocations # {}

====
